---- MODULE Spec2Model ----
(***************************************************************************)
(* ConfigCache: a bounded in-memory cache with per-entry expiry and a      *)
(* background refresh worker (package cache).  The cache is built on a     *)
(* sharded concurrent map: every shard is guarded by its own read/write    *)
(* lock, Count() sums the shard sizes one shard at a time, and IterCb()    *)
(* holds a shard's read lock while it calls the iteration callback for     *)
(* every item of that shard.                                               *)
(***************************************************************************)
EXTENDS Integers, Sequences, FiniteSets, TLC

\* ------------------------------------------------------------------ bounds

\* keys used by the callers
Keys == {"a", "b"}
\* number of shards of the concurrent map (cmap.SHARD_COUNT is 32)
NumShards == 2
Shards == 0 .. (NumShards - 1)

\* payloads (client.ProxyConfig, identified by its ID); 0 is the zero payload
Items == {5}
\* the clock runs from 1 to MaxTime
MaxTime == 2
\* the cache's time to live
ttl == 1
\* limits a cache is built with: -1 (no limit) .. MaxLimit
MaxLimit == 1
\* caller threads and the goroutine each one's RunRefreshWorker may launch
Threads == {"t1", "t2"}
\* the callers make at most MaxCalls calls in all
MaxCalls == 2
MaxConcCalls == 3
WorkerOf(t) == IF t = "t1" THEN "w1" ELSE "w2"
Workers == {WorkerOf(t) : t \in Threads}
Procs == Threads \cup Workers

\* ------------------------------------------------------------------ values

\* a nil RefreshCb
Nil == "nil"
\* the refresh callbacks callers register: one that fails, one that fetches
Callbacks == {"cbFail", "cbFetch"}
\* what a call of a refresh callback returns: (resp, err)
CallRefreshCb(cb) ==
    IF cb = "cbFail" THEN [resp |-> 0, err |-> TRUE]
                     ELSE [resp |-> 6, err |-> FALSE]

\* the zero time.Time (expires.IsZero())
ZeroTime == 0
\* type Value struct { Item; expires; refreshWith }
Value(item, expires, refreshWith) ==
    [Item |-> item, expires |-> expires, refreshWith |-> refreshWith]
ZeroValue == Value(0, ZeroTime, Nil)
\* the values a caller passes to Set: built with SetExpiry / SetRefreshCallback
InputValues ==
    {Value(i, e, cb) : i \in Items, e \in {ZeroTime} \cup (1 .. MaxTime),
                       cb \in {Nil} \cup Callbacks}

\* the keys and values of the concurrent callers
ConcKeys == Keys
ConcValues == {Value(5, e, cb) : e \in {ZeroTime, 1}, cb \in {Nil} \cup Callbacks}

\* two values that differ in every field: one without expiry and callback, one
\* with both
PlainValue == Value(5, ZeroTime, Nil)
FetchingValue == Value(7, 1, "cbFetch")
DistinctValues == {PlainValue, FetchingValue}

NoKey == "-"
\* an empty map[string]Value
EmptyMap == [k \in {} |-> ZeroValue]

\* ------------------------------------------------------------------- state

VARIABLES
    cache,                 \* scp.cache: the items of the concurrent map, key -> Value
    hash,                  \* the shard each key hashes to (cmap.GetShard); the keys are
                           \* interchangeable, so "a" is taken to hash to shard 0
    rlock,                 \* per shard, the goroutines holding its read lock in IterCb
    limit,                 \* scp.limit
    now,                   \* the clock read by now()
    refreshWorkerRunning,  \* scp.refreshWorkerRunning
    stopCh,                \* the stop channel the callers hand to RunRefreshWorker
    tickerOn,              \* per worker, whether its ticker is running
    tickerC,               \* per worker, whether ticker.C holds a tick (capacity 1)
    proc,                  \* per goroutine, where it is and its local variables
    calls,                 \* number of calls the callers have made so far
    snap                   \* history, kept for a single caller: the store and the clock
                           \* as they were when the caller's call began, and whether
                           \* its previous call was a Delete that took a key out of a
                           \* full store; arg and prev: the value passed to the call
                           \* and the Set that the caller made just before; late:
                           \* RunRefreshWorker was called after the worker had exited

vars == <<cache, hash, rlock, limit, now, refreshWorkerRunning, stopCh, tickerOn, tickerC,
          proc, calls, snap>>

\* the local variables of a goroutine that is not inside any call; called is
\* history: per key, how often a Refresh() has called the key's refresh callback
IdleProc ==
    [pc |-> "idle", op |-> "none", key |-> NoKey, v |-> ZeroValue, shard |-> 0,
     count |-> 0, todo |-> {}, forDeletion |-> <<>>, refreshItems |-> EmptyMap,
     ok |-> FALSE, err |-> "nil", called |-> [k \in Keys |-> 0]]

\* the caller's previous call was not a Set
NoPrev == [key |-> NoKey, v |-> ZeroValue, err |-> "nil", room |-> FALSE, lo |-> 1, hi |-> 1]
\* nothing is remembered of the caller's calls
NoSnap ==
    [cache |-> EmptyMap, now |-> 1, freed |-> FALSE, arg |-> ZeroValue, prev |-> NoPrev,
     late |-> FALSE]

\* NewConfigCache(ttl, maxEntries): an empty cache, no worker started
Init ==
    /\ cache = EmptyMap
    /\ hash \in {h \in [Keys -> Shards] : h["a"] = 0}
    /\ rlock = [s \in Shards |-> {}]
    /\ limit \in -1 .. MaxLimit
    /\ now = 1
    /\ refreshWorkerRunning = 0
    /\ stopCh = "open"
    /\ tickerOn = [w \in Workers |-> FALSE]
    /\ tickerC = [w \in Workers |-> FALSE]
    /\ proc = [p \in Procs |-> IF p \in Workers THEN [IdleProc EXCEPT !.pc = "off"]
                                                 ELSE IdleProc]
    /\ calls = 0
    /\ snap = NoSnap

\* --------------------------------------------------- the concurrent map

\* cmap Count() of one shard: len(shard.items)
ShardItems(s) == {k \in DOMAIN cache : hash[k] = s}
\* a Set that, for a key the map holds, stores the new item into the old entry
MapSetItemOnly(m, k, v) ==
    [x \in (DOMAIN m) \cup {k} |->
        IF x # k THEN m[x]
        ELSE IF k \in DOMAIN m THEN [m[k] EXCEPT !.Item = v.Item] ELSE v]
\* cmap Set(key, v) under the shard's write lock
MapSet(m, k, v) == [x \in (DOMAIN m) \cup {k} |-> IF x = k THEN v ELSE m[x]]
\* a Remove that leaves the key in the map
MapRemoveNothing(m, k) == m
\* cmap Remove(key) under the shard's write lock
MapRemove(m, k) == [x \in (DOMAIN m) \ {k} |-> m[x]]
\* a shard's write lock can be taken: no IterCb holds its read lock
CanWrite(k) == rlock[hash[k]] = {}

\* ------------------------------------------------------- expiry policy

\* func (scp *ConfigCache) getExpiryTime(): now().Add(scp.ttl)
getExpiryTime == now + ttl
\* an expiry test that takes the instant of expiry for expired
isExpiredOrExpiring(v) == now >= v.expires
\* func (v Value) isExpired(): now().After(v.expires)
isExpired(v) == now > v.expires

\* the clock advances
Tick ==
    /\ now < MaxTime
    /\ now' = now + 1
    /\ UNCHANGED <<cache, hash, rlock, limit, refreshWorkerRunning, stopCh, tickerOn,
                   tickerC, proc, calls, snap>>

\* ----------------------------------------------------------------- Get

\* a lookup that does not find an entry whose expiry has passed
MapHasLive(k) == k \in DOMAIN cache /\ ~isExpired(cache[k])
\* line 80: the ok of scp.cache.Get(key)
MapHas(k) == k \in DOMAIN cache

\* func (scp *ConfigCache) Get(key): one read of the map under the shard's read lock
Get(t, k) ==
    /\ proc[t].pc = "idle"
    /\ proc' = [proc EXCEPT ![t] =
                  [IdleProc EXCEPT !.pc = "done", !.op = "Get", !.key = k,
                                   !.ok = MapHas(k),
                                   !.v = IF MapHas(k) THEN cache[k] ELSE ZeroValue]]
    /\ UNCHANGED <<cache, hash, rlock, limit, now, refreshWorkerRunning, stopCh, tickerOn,
                   tickerC>>

\* ----------------------------------------------------------------- Set

\* line 90: with a negative limit Count() is not called
\* lines 91-94: a zero expires is replaced before the map's Set
SetStorePc(v) == IF v.expires = ZeroTime THEN "getExpiryTime" ELSE "cacheSet"
SetEntryPc(v) == IF limit < 0 THEN SetStorePc(v) ELSE "Count"

\* a goroutine enters Set(k, v)
EnterSet(r, k, v) ==
    [r EXCEPT !.pc = SetEntryPc(v), !.key = k, !.v = v, !.shard = 0, !.count = 0]

\* a limit check that lets one entry too many in
BelowOrAtLimit(count) == count <= limit
\* the limit check of line 90, on the sum Count() returned
BelowLimit(count) == count < limit

\* where Set returns to: its caller, or the loop of Refresh (lines 143-145)
LeaveSet(r, err) ==
    IF r.op = "Set"
    THEN [IdleProc EXCEPT !.pc = "done", !.op = "Set", !.key = r.key, !.v = r.v,
                          !.err = err]
    ELSE LET rest == r.todo \ {r.key} IN
         IF rest # {}
         THEN [IdleProc EXCEPT !.pc = "RefreshSet", !.op = r.op, !.todo = rest,
                               !.refreshItems = r.refreshItems, !.called = r.called]
         ELSE IF r.op = "Worker"
              THEN [IdleProc EXCEPT !.pc = "select", !.op = "Worker"]
              ELSE [IdleProc EXCEPT !.pc = "done", !.op = "Refresh", !.called = r.called]

\* a caller calls Set(k, v)
SetCall(t, k, v) ==
    /\ proc[t].pc = "idle"
    /\ proc' = [proc EXCEPT ![t] = EnterSet([IdleProc EXCEPT !.op = "Set"], k, v)]
    /\ UNCHANGED <<cache, hash, rlock, limit, now, refreshWorkerRunning, stopCh, tickerOn,
                   tickerC>>

\* scp.cache.Count(): the next shard's size is added; after the last shard the
\* sum is compared with the limit (line 90) and Set fails when it is not below
Count(p) ==
    /\ proc[p].pc = "Count"
    /\ LET r == proc[p]
           sum == r.count + Cardinality(ShardItems(r.shard))
       IN  proc' = [proc EXCEPT ![p] =
                IF r.shard + 1 < NumShards
                THEN [r EXCEPT !.shard = r.shard + 1, !.count = sum]
                ELSE IF BelowLimit(sum)
                     THEN [r EXCEPT !.pc = SetStorePc(r.v), !.shard = 0, !.count = 0]
                     ELSE LeaveSet(r, "full")]
    /\ UNCHANGED <<cache, hash, rlock, limit, now, refreshWorkerRunning, stopCh, tickerOn,
                   tickerC, calls, snap>>

\* lines 91-93: v.expires = scp.getExpiryTime()
SetExpires(p) ==
    /\ proc[p].pc = "getExpiryTime"
    /\ proc' = [proc EXCEPT ![p] =
                  [@ EXCEPT !.pc = "cacheSet", !.v = [@ EXCEPT !.expires = getExpiryTime]]]
    /\ UNCHANGED <<cache, hash, rlock, limit, now, refreshWorkerRunning, stopCh, tickerOn,
                   tickerC, calls, snap>>

\* line 94: scp.cache.Set(key, v), then return nil
CacheSet(p) ==
    /\ proc[p].pc = "cacheSet"
    /\ CanWrite(proc[p].key)
    /\ cache' = MapSet(cache, proc[p].key, proc[p].v)
    /\ proc' = [proc EXCEPT ![p] = LeaveSet(@, "nil")]
    /\ UNCHANGED <<hash, rlock, limit, now, refreshWorkerRunning, stopCh, tickerOn, tickerC,
                   calls, snap>>

\* -------------------------------------------------------------- Delete

\* a caller calls Delete(k)
DeleteCall(t, k) ==
    /\ proc[t].pc = "idle"
    /\ proc' = [proc EXCEPT ![t] =
                  [IdleProc EXCEPT !.pc = "cacheRemove", !.op = "Delete", !.key = k]]
    /\ UNCHANGED <<cache, hash, rlock, limit, now, refreshWorkerRunning, stopCh, tickerOn,
                   tickerC>>

\* line 103: scp.cache.Remove(key)
CacheRemove(t) ==
    /\ proc[t].pc = "cacheRemove"
    /\ CanWrite(proc[t].key)
    /\ cache' = MapRemove(cache, proc[t].key)
    /\ proc' = [proc EXCEPT ![t] = [@ EXCEPT !.pc = "done"]]
    /\ UNCHANGED <<hash, rlock, limit, now, refreshWorkerRunning, stopCh, tickerOn, tickerC,
                   calls, snap>>

\* a call returns to the caller
Return(t) ==
    /\ proc[t].pc = "done"
    /\ proc' = [proc EXCEPT ![t] = IdleProc]
    /\ UNCHANGED <<cache, hash, rlock, limit, now, refreshWorkerRunning, stopCh, tickerOn,
                   tickerC>>

\* -------------------------------------------------- IterCb (cmap.IterCb)

\* a caller calls FlushExpired()
FlushExpiredCall(t) ==
    /\ proc[t].pc = "idle"
    /\ proc' = [proc EXCEPT ![t] =
                  [IdleProc EXCEPT !.pc = "IterLock", !.op = "FlushExpired"]]
    /\ UNCHANGED <<cache, hash, rlock, limit, now, refreshWorkerRunning, stopCh, tickerOn,
                   tickerC>>

\* a caller calls Refresh()
RefreshCall(t) ==
    /\ proc[t].pc = "idle"
    /\ proc' = [proc EXCEPT ![t] = [IdleProc EXCEPT !.pc = "IterLock", !.op = "Refresh"]]
    /\ UNCHANGED <<cache, hash, rlock, limit, now, refreshWorkerRunning, stopCh, tickerOn,
                   tickerC>>

\* IterCb takes the read lock of the next shard and ranges over its items
IterLock(p) ==
    /\ proc[p].pc = "IterLock"
    /\ rlock' = [rlock EXCEPT ![proc[p].shard] = @ \cup {p}]
    /\ proc' = [proc EXCEPT ![p] =
                  [@ EXCEPT !.pc = "IterCb", !.todo = ShardItems(proc[p].shard)]]
    /\ UNCHANGED <<cache, hash, limit, now, refreshWorkerRunning, stopCh, tickerOn, tickerC,
                   calls, snap>>

\* lines 112-115: the callback of FlushExpired on one item of the shard
FlushExpiredCb(p) ==
    /\ proc[p].pc = "IterCb"
    /\ proc[p].op = "FlushExpired"
    /\ \E k \in proc[p].todo :
          proc' = [proc EXCEPT ![p] =
                     [@ EXCEPT !.todo = @ \ {k},
                               !.forDeletion = IF isExpired(cache[k])
                                               THEN Append(@, k) ELSE @]]
    /\ UNCHANGED <<cache, hash, rlock, limit, now, refreshWorkerRunning, stopCh, tickerOn,
                   tickerC, calls, snap>>

\* a test that takes every item to carry a refresh callback
HasRefreshCbAlways(v) == TRUE
\* line 129: item.refreshWith != nil
HasRefreshCb(v) == v.refreshWith # Nil

\* lines 128-130: the callback of Refresh on one item of the shard; an item with
\* a refresh callback has it called, under the shard's read lock
RefreshCb(p) ==
    /\ proc[p].pc = "IterCb"
    /\ proc[p].op \in {"Refresh", "Worker"}
    /\ \E k \in proc[p].todo :
          proc' = [proc EXCEPT ![p] =
                     IF HasRefreshCb(cache[k])
                     THEN [@ EXCEPT !.pc = "refreshWith", !.key = k, !.v = cache[k]]
                     ELSE [@ EXCEPT !.todo = @ \ {k}]]
    /\ UNCHANGED <<cache, hash, rlock, limit, now, refreshWorkerRunning, stopCh, tickerOn,
                   tickerC, calls, snap>>

\* lines 135-139: the value Refresh builds from a callback's response
RefreshedValue(item, resp) == Value(resp, getExpiryTime, item.refreshWith)

\* a refresh that keeps the response whatever the error
KeepRefreshedAlways(items, k, item, res) ==
    MapSet(items, k, RefreshedValue(item, res.resp))
\* lines 131-140: on an error the item is skipped, else the refreshed value is
\* kept in refreshItems
KeepRefreshed(items, k, item, res) ==
    IF res.err THEN items ELSE MapSet(items, k, RefreshedValue(item, res.resp))

\* line 130: item.refreshWith() returns
RefreshWithReturn(p) ==
    /\ proc[p].pc = "refreshWith"
    /\ LET r == proc[p]
           res == CallRefreshCb(r.v.refreshWith)
       IN  proc' = [proc EXCEPT ![p] =
                [r EXCEPT !.pc = "IterCb", !.todo = @ \ {r.key}, !.key = NoKey,
                          !.v = ZeroValue,
                          !.refreshItems = KeepRefreshed(@, r.key, r.v, res),
                          !.called = [@ EXCEPT ![r.key] = @ + 1]]]
    /\ UNCHANGED <<cache, hash, rlock, limit, now, refreshWorkerRunning, stopCh, tickerOn,
                   tickerC, calls, snap>>

\* where a goroutine goes when its IterCb has returned
AfterIter(r) ==
    IF r.op = "FlushExpired"
    THEN IF r.forDeletion # <<>>
         THEN [r EXCEPT !.pc = "FlushDelete", !.shard = 0]
         ELSE [IdleProc EXCEPT !.pc = "done", !.op = "FlushExpired"]
    ELSE IF r.refreshItems # EmptyMap
         THEN [r EXCEPT !.pc = "RefreshSet", !.shard = 0, !.todo = DOMAIN r.refreshItems]
         ELSE IF r.op = "Worker"
              THEN [IdleProc EXCEPT !.pc = "select", !.op = "Worker"]
              ELSE [IdleProc EXCEPT !.pc = "done", !.op = "Refresh", !.called = r.called]

\* IterCb has ranged over the shard: it releases the read lock and goes on to
\* the next shard, or returns
IterUnlock(p) ==
    /\ proc[p].pc = "IterCb"
    /\ proc[p].todo = {}
    /\ rlock' = [rlock EXCEPT ![proc[p].shard] = @ \ {p}]
    /\ proc' = [proc EXCEPT ![p] =
                  IF proc[p].shard + 1 < NumShards
                  THEN [@ EXCEPT !.pc = "IterLock", !.shard = @ + 1]
                  ELSE AfterIter(@)]
    /\ UNCHANGED <<cache, hash, limit, now, refreshWorkerRunning, stopCh, tickerOn, tickerC,
                   calls, snap>>

\* lines 117-119: FlushExpired deletes the next key of forDeletion
FlushDelete(p) ==
    /\ proc[p].pc = "FlushDelete"
    /\ LET r == proc[p]
           k == Head(r.forDeletion)
       IN  /\ CanWrite(k)
           /\ cache' = MapRemove(cache, k)
           /\ proc' = [proc EXCEPT ![p] =
                         IF Tail(r.forDeletion) # <<>>
                         THEN [r EXCEPT !.forDeletion = Tail(@)]
                         ELSE [IdleProc EXCEPT !.pc = "done", !.op = "FlushExpired"]]
    /\ UNCHANGED <<hash, rlock, limit, now, refreshWorkerRunning, stopCh, tickerOn, tickerC,
                   calls, snap>>

\* lines 143-145: Refresh calls Set(k, v) for the next entry of refreshItems (a
\* range over a map: in any order); todo holds the keys still to come
RefreshSet(p) ==
    /\ proc[p].pc = "RefreshSet"
    /\ \E k \in proc[p].todo :
          proc' = [proc EXCEPT ![p] = EnterSet(@, k, proc[p].refreshItems[k])]
    /\ UNCHANGED <<cache, hash, rlock, limit, now, refreshWorkerRunning, stopCh, tickerOn,
                   tickerC, calls, snap>>

\* ---------------------------------------------------- RunRefreshWorker

\* a guard that does not look at the flag
CompareAndSwapAlways(old) == TRUE
\* atomic.CompareAndSwapInt32(&scp.refreshWorkerRunning, 0, 1) succeeds
CompareAndSwap(old) == refreshWorkerRunning = old

\* line 151: a caller calls RunRefreshWorker(interval, stop); the call fails
\* when the flag is already set
RunRefreshWorkerCall(t) ==
    /\ proc[t].pc = "idle"
    /\ IF CompareAndSwap(0)
       THEN /\ refreshWorkerRunning' = 1
            /\ proc' = [proc EXCEPT ![t] =
                          [IdleProc EXCEPT !.pc = "go", !.op = "RunRefreshWorker"]]
       ELSE /\ refreshWorkerRunning' = refreshWorkerRunning
            /\ proc' = [proc EXCEPT ![t] =
                          [IdleProc EXCEPT !.pc = "done", !.op = "RunRefreshWorker",
                                           !.err = "started"]]
    /\ UNCHANGED <<cache, hash, rlock, limit, now, stopCh, tickerOn, tickerC>>

\* lines 155-168: the ticker is created, the goroutine is launched, nil returned
Go(t) ==
    /\ proc[t].pc = "go"
    /\ proc[WorkerOf(t)].pc = "off"
    /\ tickerOn' = [tickerOn EXCEPT ![WorkerOf(t)] = TRUE]
    /\ proc' = [proc EXCEPT ![t] = [@ EXCEPT !.pc = "done"],
                            ![WorkerOf(t)] = [IdleProc EXCEPT !.pc = "select",
                                                             !.op = "Worker"]]
    /\ UNCHANGED <<cache, hash, rlock, limit, now, refreshWorkerRunning, stopCh, tickerC,
                   calls, snap>>

\* the ticker sends on ticker.C; a tick is dropped when the channel is full
TickerFire(w) ==
    /\ tickerOn[w]
    /\ ~tickerC[w]
    /\ tickerC' = [tickerC EXCEPT ![w] = TRUE]
    /\ UNCHANGED <<cache, hash, rlock, limit, now, refreshWorkerRunning, stopCh, tickerOn,
                   proc, calls, snap>>

\* lines 160-161: the worker receives a tick and calls scp.Refresh()
WorkerTick(w) ==
    /\ proc[w].pc = "select"
    /\ tickerC[w]
    /\ tickerC' = [tickerC EXCEPT ![w] = FALSE]
    /\ proc' = [proc EXCEPT ![w] = [IdleProc EXCEPT !.pc = "IterLock", !.op = "Worker"]]
    /\ UNCHANGED <<cache, hash, rlock, limit, now, refreshWorkerRunning, stopCh, tickerOn,
                   calls, snap>>

\* a worker that leaves the select, not the loop
AfterStopBreak == "select"
\* where the worker goes when it has received from stop: line 164, return
AfterStop == "exited"

\* a worker that clears the flag when it returns
RunningCleared(running) == 0
\* scp.refreshWorkerRunning when the worker has returned: the stop case does
\* not store to it
RunningAfterStop(running) == running

\* lines 162-164: the worker receives from stop (a sent value, or the channel is
\* closed), stops the ticker and returns
WorkerStop(w) ==
    /\ proc[w].pc = "select"
    /\ stopCh \in {"sent", "closed"}
    /\ stopCh' = IF stopCh = "sent" THEN "open" ELSE stopCh
    /\ tickerOn' = [tickerOn EXCEPT ![w] = FALSE]
    /\ proc' = [proc EXCEPT ![w] = [IdleProc EXCEPT !.pc = AfterStop, !.op = "Worker"]]
    /\ refreshWorkerRunning' = RunningAfterStop(refreshWorkerRunning)
    /\ UNCHANGED <<cache, hash, rlock, limit, now, tickerC, calls, snap>>

\* the owner of the stop channel closes it, once a worker was started
CloseStop ==
    /\ refreshWorkerRunning = 1
    /\ stopCh = "open"
    /\ stopCh' = "closed"
    /\ UNCHANGED <<cache, hash, rlock, limit, now, refreshWorkerRunning, tickerOn, tickerC,
                   proc, calls, snap>>

\* the owner of the stop channel sends a value on it (Authorizer.Stop), once a
\* worker was started
SendStop ==
    /\ refreshWorkerRunning = 1
    /\ stopCh = "open"
    /\ stopCh' = "sent"
    /\ UNCHANGED <<cache, hash, rlock, limit, now, refreshWorkerRunning, tickerOn, tickerC,
                   proc, calls, snap>>

\* ------------------------------------------------------ specifications

\* a step inside a call
Step(p) ==
    \/ Count(p)
    \/ SetExpires(p)
    \/ CacheSet(p)
    \/ IterLock(p)
    \/ FlushExpiredCb(p)
    \/ RefreshCb(p)
    \/ RefreshWithReturn(p)
    \/ IterUnlock(p)
    \/ FlushDelete(p)
    \/ RefreshSet(p)

\* a caller makes a call on the store
StoreCall(t, K, V) ==
    \/ \E k \in K : Get(t, k)
    \/ \E k \in K, v \in V : SetCall(t, k, v)
    \/ \E k \in K : DeleteCall(t, k)
    \/ FlushExpiredCall(t)
    \/ RefreshCall(t)

\* the previous call took a key out of a full store
FreedCapacity(r) ==
    /\ r.op = "Delete"
    /\ r.key \in DOMAIN snap.cache
    /\ limit >= 0
    /\ Cardinality(DOMAIN snap.cache) = limit

\* one caller, no worker: the calls run one after the other
SeqNext ==
    \/ /\ StoreCall("t1", Keys, InputValues)
       /\ snap' = [snap EXCEPT !.cache = cache, !.now = now]
       /\ UNCHANGED calls
    \/ /\ Return("t1")
       /\ snap' = [NoSnap EXCEPT !.freed = FreedCapacity(proc["t1"])]
       /\ UNCHANGED calls
    \/ CacheRemove("t1")
    \/ Step("t1")
    \/ Tick

SeqSpec == Init /\ [][SeqNext]_vars

\* the Set the caller has just made: its key, the value passed, the error
\* returned, whether the key was stored or the store had room when the call
\* began, and the clock when the call began and when it returned
PrevSet(r) ==
    IF r.op = "Set"
    THEN [key |-> r.key, v |-> snap.arg, err |-> r.err,
          room |-> \/ limit < 0
                   \/ r.key \in DOMAIN snap.cache
                   \/ Cardinality(DOMAIN snap.cache) < limit,
          lo |-> snap.now, hi |-> now]
    ELSE NoPrev

\* one caller, no worker, the calls run one after the other; the call made just
\* before is remembered
PairNext ==
    \/ /\ StoreCall("t1", Keys, InputValues)
       /\ snap' = [snap EXCEPT !.cache = cache, !.now = now, !.arg = proc'["t1"].v]
       /\ UNCHANGED calls
    \/ /\ Return("t1")
       /\ snap' = [NoSnap EXCEPT !.prev = PrevSet(proc["t1"])]
       /\ UNCHANGED calls
    \/ CacheRemove("t1")
    \/ Step("t1")
    \/ Tick

PairSpec == Init /\ [][PairNext]_vars

\* concurrent callers and the refresh worker; the callers make at most
\* MaxCalls calls in all
Next ==
    \/ \E t \in Threads :
          /\ calls < MaxCalls
          /\ StoreCall(t, ConcKeys, ConcValues) \/ RunRefreshWorkerCall(t)
          /\ calls' = calls + 1
          /\ UNCHANGED snap
    \/ \E t \in Threads : Return(t) /\ UNCHANGED <<calls, snap>>
    \/ \E t \in Threads : CacheRemove(t) \/ Go(t)
    \/ \E p \in Procs : Step(p)
    \/ \E w \in Workers : TickerFire(w) \/ WorkerTick(w) \/ WorkerStop(w)
    \/ CloseStop
    \/ SendStop
    \/ Tick

Spec == Init /\ [][Next]_vars

\* fair scheduling: a goroutine that can take a step inside a call takes one, a
\* go statement is executed, and a select that finds stop ready again and again
\* takes the stop case in the end (select chooses at random among the ready
\* cases)
Fairness ==
    /\ \A p \in Procs : WF_vars(Step(p))
    /\ \A t \in Threads : WF_vars(Go(t))
    /\ \A w \in Workers : SF_vars(WorkerStop(w))

\* a worker has returned
Exited == \E w \in Workers : proc[w].pc = "exited"

\* the callers and the refresh worker as in Next, the callers using one key and
\* the values that differ in every field; a RunRefreshWorker call made after the
\* worker has returned is remembered
LiveKeys == {"a"}
LiveNext ==
    \/ \E t \in Threads :
          /\ calls < MaxCalls
          /\ StoreCall(t, LiveKeys, DistinctValues) \/ RunRefreshWorkerCall(t)
          /\ calls' = calls + 1
          /\ snap' = [snap EXCEPT
                        !.late = @ \/ (Exited /\ proc'[t].op = "RunRefreshWorker")]
    \/ \E t \in Threads : Return(t) /\ UNCHANGED <<calls, snap>>
    \/ \E t \in Threads : CacheRemove(t) \/ Go(t)
    \/ \E p \in Procs : Step(p)
    \/ \E w \in Workers : TickerFire(w) \/ WorkerTick(w) \/ WorkerStop(w)
    \/ CloseStop
    \/ SendStop
    \/ Tick

LiveSpec == Init /\ [][LiveNext]_vars /\ Fairness

\* concurrent callers of the store, no worker
ConcNext ==
    \/ \E t \in Threads :
          /\ calls < MaxConcCalls
          /\ StoreCall(t, ConcKeys, ConcValues)
          /\ calls' = calls + 1
          /\ UNCHANGED snap
    \/ \E t \in Threads : Return(t) /\ UNCHANGED <<calls, snap>>
    \/ \E t \in Threads : CacheRemove(t)
    \/ \E p \in Threads : Step(p)
    \/ Tick

ConcSpec == Init /\ [][ConcNext]_vars

\* concurrent callers of the store, no worker, with values that differ in every
\* field
DistinctNext ==
    \/ \E t \in Threads :
          /\ calls < MaxConcCalls
          /\ StoreCall(t, ConcKeys, DistinctValues)
          /\ calls' = calls + 1
          /\ UNCHANGED snap
    \/ \E t \in Threads : Return(t) /\ UNCHANGED <<calls, snap>>
    \/ \E t \in Threads : CacheRemove(t)
    \/ \E p \in Threads : Step(p)
    \/ Tick

DistinctSpec == Init /\ [][DistinctNext]_vars

\* ---------------------------------------------------------------- claims

\* the single caller of SeqSpec and its call
Caller == proc["t1"]
Done(op) == Caller.pc = "done" /\ Caller.op = op
\* the store held n entries when the call began
Held == Cardinality(DOMAIN snap.cache)

\* C1: calls made one after the other: a Set of a new key succeeds
\* while the store holds fewer than limit entries and fails with the capacity
\* error once it holds limit entries (at once when the limit is 0), so the
\* store never holds more than limit entries; with a negative limit a Set
\* never fails
C1_SequentialCapacity ==
    /\ limit >= 0 => Cardinality(DOMAIN cache) <= limit
    /\ (Done("Set") /\ Caller.key \notin DOMAIN snap.cache) =>
          /\ limit < 0 => Caller.err = "nil"
          /\ (limit >= 0 /\ Held < limit) =>
                Caller.err = "nil" /\ Caller.key \in DOMAIN cache
          /\ (limit >= 0 /\ Held >= limit) => Caller.err = "full"

\* C1 witness: limit 1, one key stored, the Set of a second key has failed
C1_Witness ==
    /\ limit = 1
    /\ Done("Set")
    /\ Caller.key \notin DOMAIN snap.cache
    /\ Held = 1
    /\ Caller.err = "full"

\* the store is as it was when the call began, but for key k
SameBut(k) ==
    /\ DOMAIN cache \ {k} = DOMAIN snap.cache \ {k}
    /\ \A x \in DOMAIN cache \ {k} : cache[x] = snap.cache[x]

\* C2: a Set of a key the store already holds succeeds and replaces the
\* key's entry, also when the store holds limit entries
C2_OverwriteSucceeds ==
    (Done("Set") /\ limit >= 0 /\ Caller.key \in DOMAIN snap.cache /\ Held = limit) =>
        /\ Caller.err = "nil"
        /\ Caller.key \in DOMAIN cache
        /\ cache[Caller.key] = Caller.v
        /\ SameBut(Caller.key)

\* the entry's refresh callback returns a response and no error
Fetches(v) == v.refreshWith # Nil /\ ~CallRefreshCb(v.refreshWith).err
\* the entry's refresh callback returns an error
Fails(v) == v.refreshWith # Nil /\ CallRefreshCb(v.refreshWith).err

\* C3: when Refresh() has returned, every key whose callback returned a
\* response holds that response, an expiry of now() + ttl (now() read during
\* the call) and the callback it had, whatever the store's size
C3_RefreshReplaces ==
    Done("Refresh") =>
        \A k \in DOMAIN snap.cache :
            Fetches(snap.cache[k]) =>
                /\ k \in DOMAIN cache
                /\ cache[k].Item = CallRefreshCb(snap.cache[k].refreshWith).resp
                /\ cache[k].refreshWith = snap.cache[k].refreshWith
                /\ cache[k].expires \in (snap.now + ttl) .. (now + ttl)

\* C4: when Refresh() has returned, every key whose callback returned an
\* error is still there with the item, the expiry and the callback it had;
\* Refresh() reports no error
C4_FailedRefreshPreserves ==
    Done("Refresh") =>
        /\ Caller.err = "nil"
        /\ \A k \in DOMAIN snap.cache :
              Fails(snap.cache[k]) => k \in DOMAIN cache /\ cache[k] = snap.cache[k]

\* C4 witness: an unlimited store; Refresh() has returned, one key's callback
\* failed and another key's callback fetched a new item
C4_Witness ==
    /\ limit < 0
    /\ Done("Refresh")
    /\ \E k, j \in DOMAIN snap.cache :
          /\ Fails(snap.cache[k])
          /\ Fetches(snap.cache[j])
          /\ cache[j].Item # snap.cache[j].Item

\* C5: with a limit that is not negative the store never holds more than
\* limit keys, whatever the interleaving of the callers
C5_CapacityBound == limit >= 0 => Cardinality(DOMAIN cache) <= limit

\* C6: a Set of a new key on a store that holds limit entries returns the
\* capacity error; a Set that returned the capacity error left the store as
\* it was, the key absent
C6_RejectedSetNoEffect ==
    /\ (Done("Set") /\ limit >= 0 /\ Caller.key \notin DOMAIN snap.cache /\ Held = limit)
          => Caller.err = "full"
    /\ (Done("Set") /\ Caller.err = "full" /\ Caller.key \notin DOMAIN snap.cache)
          => cache = snap.cache /\ Caller.key \notin DOMAIN cache

\* C6 witness: a Set of a new key was rejected by a store whose one entry
\* carries a refresh callback
C6_Witness ==
    /\ Done("Set")
    /\ Caller.err = "full"
    /\ Caller.key \notin DOMAIN snap.cache
    /\ \E k \in DOMAIN cache : cache[k].refreshWith # Nil

\* the goroutines launched by RunRefreshWorker that have not returned
ActiveWorkers == {w \in Workers : proc[w].pc \notin {"off", "exited"}}

\* C7: at most one refresh worker is active at any time; a
\* RunRefreshWorker call made while a worker is active returns the
\* already-started error, launches nothing and leaves the worker and its
\* ticker as they are
C7_SingleWorker ==
    /\ [](Cardinality(ActiveWorkers) <= 1)
    /\ [][\A t \in Threads :
            (/\ ActiveWorkers # {}
             /\ proc[t].pc = "idle"
             /\ proc'[t].op = "RunRefreshWorker")
            => /\ proc'[t].pc = "done"
               /\ proc'[t].err = "started"
               /\ \A w \in Workers : proc'[w] = proc[w]
               /\ tickerOn' = tickerOn
               /\ tickerC' = tickerC]_vars

\* C7 witness: a worker is in the middle of a Refresh() and a
\* RunRefreshWorker call has returned the already-started error
C7_Witness ==
    /\ \E w \in Workers : proc[w].pc \notin {"off", "exited", "select"}
    /\ \E t \in Threads :
          /\ proc[t].pc = "done"
          /\ proc[t].op = "RunRefreshWorker"
          /\ proc[t].err = "started"

\* the worker has received from stop: only then is its ticker stopped
StopObserved(w) == proc[w].pc # "off" /\ ~tickerOn[w]

\* C8: once the worker has observed the stop signal it takes no further
\* step: it never calls Refresh() again and so calls no refresh callback,
\* whatever ticks are still to be read
C8_StopHaltsRefresh ==
    [][\A w \in Workers : StopObserved(w) => proc'[w] = proc[w]]_vars

\* C8 witness: the worker refreshed an entry (item 6 comes from a callback),
\* then observed stop while a tick was waiting in ticker.C
C8_Witness ==
    \E w \in Workers :
        /\ StopObserved(w)
        /\ tickerC[w]
        /\ \E k \in DOMAIN cache : cache[k].Item = 6

C10_Delete ==
    /\ Done("Delete") =>
          /\ Caller.err = "nil"
          /\ Caller.key \notin DOMAIN cache
          /\ SameBut(Caller.key)
    /\ (Done("Set") /\ snap.freed /\ Caller.key \notin DOMAIN snap.cache) =>
          /\ Caller.err = "nil"
          /\ Caller.key \in DOMAIN cache
          /\ cache[Caller.key] = Caller.v

\* C10 witness: limit 1; a Delete took the only key out, and the Set of a
\* new key that followed has succeeded
C10_Witness ==
    /\ limit = 1
    /\ Done("Set")
    /\ snap.freed
    /\ Caller.key \notin DOMAIN snap.cache
    /\ Caller.err = "nil"

\* C11: a Set(k, v) that the capacity rule accepts (no limit, k already
\* stored, or fewer than limit entries held), followed at once by Get(k):
\* the Get finds k with the item and the callback of v and with the expiry of v,
\* or now() + ttl (now() read during the Set) when v carried none; a Get of a
\* key that is not stored finds nothing
C11_RoundTrip ==
    Done("Get") =>
        /\ (snap.prev.key = Caller.key /\ snap.prev.room) =>
              /\ Caller.ok
              /\ Caller.v.Item = snap.prev.v.Item
              /\ Caller.v.refreshWith = snap.prev.v.refreshWith
              /\ IF snap.prev.v.expires # ZeroTime
                 THEN Caller.v.expires = snap.prev.v.expires
                 ELSE Caller.v.expires \in (snap.prev.lo + ttl) .. (snap.prev.hi + ttl)
        /\ Caller.key \notin DOMAIN snap.cache => ~Caller.ok /\ Caller.v = ZeroValue

\* the entries Set and Refresh build from DistinctValues, each one whole: the
\* plain value with the expiry Set gave it, the fetching value as passed, and
\* the fetching value refreshed (the callback's item, a fresh expiry, the same
\* callback)
Expiries == (1 + ttl) .. (MaxTime + ttl)
WholeEntries ==
    {Value(PlainValue.Item, e, Nil) : e \in Expiries}
    \cup {FetchingValue}
    \cup {Value(CallRefreshCb("cbFetch").resp, e, "cbFetch") : e \in Expiries}

\* C12: whatever Set or Refresh runs at the same time, a Get that finds
\* its key returns an entry as one Set or one Refresh built it, never the item
\* of one entry with the expiry or the callback of another; a Get that does not
\* find its key returns the zero entry
C12_AtomicReplacement ==
    \A t \in Threads :
        (proc[t].pc = "done" /\ proc[t].op = "Get") =>
            IF proc[t].ok THEN proc[t].v \in WholeEntries ELSE proc[t].v = ZeroValue

\* C12 witness: a Get has returned the old entry of a key while a Refresh()
\* that has fetched the key's new entry has not stored it yet
C12_Witness ==
    \E t, u \in Threads :
        /\ proc[t].pc = "done" /\ proc[t].op = "Get" /\ proc[t].ok
        /\ proc[t].v = FetchingValue
        /\ proc[u].op = "Refresh"
        /\ proc[t].key \in DOMAIN proc[u].refreshItems

\* the step stores key k on behalf of a caller's Set(k, v)
SetByCaller(k) ==
    \E t \in Threads :
        /\ proc[t].op = "Set"
        /\ proc[t].pc = "cacheSet"
        /\ proc[t].key = k
        /\ proc'[t].pc = "done"

\* C13: a key comes into the store only through a caller's Set: no step
\* of a Refresh() adds a key, so a key that Delete or FlushExpired removed
\* while a Refresh() was in progress is not brought back by that Refresh()
C13_RefreshNeverCreates ==
    [][\A k \in Keys :
          (k \notin DOMAIN cache /\ k \in DOMAIN cache') => SetByCaller(k)]_vars

\* C14: whatever Set or Refresh runs at the same time, an entry that a
\* FlushExpired() removes is expired when it is removed (now() is after its
\* expiry): a key whose stale entry was overwritten with a live one during the
\* call is not removed
C14_FlushRemovesOnlyExpired ==
    [][\A t \in Threads :
          (proc[t].pc = "FlushDelete" /\ proc'[t] # proc[t]) =>
              \A k \in DOMAIN cache \ DOMAIN cache' : now > cache[k].expires]_vars

\* the stop channel is closed or holds a value nobody has received yet
StopSignaled == stopCh \in {"sent", "closed"}
\* a worker has stopped its ticker and returned
WorkerExited == \E w \in Workers : proc[w].pc = "exited" /\ ~tickerOn[w]

\* C15: under fair scheduling, once stop is signaled while a worker was
\* started, the worker in the end stops its ticker and exits, the refresh
\* callbacks all returning; it exits only from its select, so a Refresh() it is
\* in runs to its end first
C15_WorkerTerminates ==
    /\ StopSignaled ~> WorkerExited
    /\ [][\A w \in Workers :
            (proc[w].pc # "exited" /\ proc'[w].pc = "exited") => proc[w].pc = "select"]_vars

\* C15 witness: a value is waiting on stop while the worker is inside a
\* Refresh(), in the call of an entry's refresh callback
C15_Witness ==
    /\ stopCh = "sent"
    /\ \E w \in Workers : proc[w].pc = "refreshWith"

\* the workers that are inside a Refresh() cycle
InCycle == {w \in Workers : proc[w].op = "Worker" /\ proc[w].pc \notin {"select", "exited"}}
\* the step begins a Refresh() cycle of worker w
CycleStarts(w) == w \notin InCycle /\ proc'[w].op = "Worker" /\ proc'[w].pc = "IterLock"

\* C16: at most one Refresh() cycle of the worker is in progress at any
\* time; a cycle begins only when the worker is back in its select, the cycle
\* before having returned, and it takes the one tick that ticker.C holds: the
\* ticks that came while the channel was full are dropped
C16_NoOverlappingCycles ==
    /\ [](Cardinality(InCycle) <= 1)
    /\ [][\A w \in Workers :
            CycleStarts(w) =>
                /\ proc[w].pc = "select"
                /\ InCycle = {}
                /\ tickerC[w] /\ ~tickerC'[w]]_vars

\* C16 witness: the worker is inside a cycle, calling a refresh callback,
\* and the next tick is already waiting in ticker.C
C16_Witness ==
    \E w \in Workers :
        /\ w \in InCycle
        /\ proc[w].pc = "refreshWith"
        /\ tickerC[w]

\* C17: when a Refresh() that ran alone has returned, it has called the
\* refresh callback of every entry that carries one exactly once and no other,
\* the store holds the keys it held, and every entry without a callback is as
\* it was
C17_RefreshTouchesRefreshable ==
    Done("Refresh") =>
        /\ DOMAIN cache = DOMAIN snap.cache
        /\ \A k \in Keys :
              Caller.called[k] =
                  IF k \in DOMAIN snap.cache /\ snap.cache[k].refreshWith # Nil THEN 1 ELSE 0
        /\ \A k \in DOMAIN snap.cache :
              snap.cache[k].refreshWith = Nil => cache[k] = snap.cache[k]

\* C17 witness: Refresh() has returned on a store with an entry without a
\* callback and an entry whose callback fetched a new item
C17_Witness ==
    /\ Done("Refresh")
    /\ \E k, j \in DOMAIN snap.cache :
          /\ snap.cache[k].refreshWith = Nil
          /\ Fetches(snap.cache[j])
          /\ Caller.called[j] = 1
          /\ cache[j].Item # snap.cache[j].Item

\* a Refresh() is inside the call of a refresh callback
InCallback == \E p \in Procs : proc[p].pc = "refreshWith"
\* caller t is about to write the map for its Set or Delete
AtMapWrite(t) == proc[t].op \in {"Set", "Delete"} /\ proc[t].pc \in {"cacheSet", "cacheRemove"}

\* C18: while a Refresh() is inside a refresh callback, a caller's Set or
\* Delete of any key can take its step on the map: the lock it needs is not
\* held for the time of the callback (a Get never waits in this model)
C18_NoWaitOnCallback ==
    \A t \in Threads :
        (InCallback /\ AtMapWrite(t)) => rlock[hash[proc[t].key]] = {}

\* the workers that were ever launched
Launched == {w \in Workers : proc[w].pc # "off"}
\* the step is caller t calling RunRefreshWorker
CallsRun(t) == proc[t].pc = "idle" /\ proc'[t].op = "RunRefreshWorker"

\* C19: a RunRefreshWorker call succeeds only when the running flag is
\* 0, and sets it; the flag is never cleared, so at most one call ever
\* succeeds and at most one worker is ever launched; a call made while the flag
\* is set, also after the worker has exited, returns the already-started error
\* and changes no worker; a worker that has exited stays so
C19_StartOneShot ==
    /\ [](Cardinality(Launched) <= 1)
    /\ [][/\ refreshWorkerRunning = 1 => refreshWorkerRunning' = 1
          /\ \A t \in Threads :
                CallsRun(t) =>
                    IF refreshWorkerRunning = 0
                    THEN proc'[t].pc = "go" /\ refreshWorkerRunning' = 1
                    ELSE /\ proc'[t].pc = "done"
                         /\ proc'[t].err = "started"
                         /\ \A w \in Workers : proc'[w] = proc[w]
                         /\ tickerOn' = tickerOn
          /\ \A w \in Workers : proc[w].pc = "exited" => proc'[w] = proc[w]]_vars

\* C19 witness: a RunRefreshWorker call made after the worker had exited
\* has returned the already-started error
C19_Witness ==
    /\ snap.late
    /\ Exited
    /\ \E t \in Threads :
          /\ proc[t].pc = "done"
          /\ proc[t].op = "RunRefreshWorker"
          /\ proc[t].err = "started"

\* C20: when Get(k) has returned, the store is as it was; k was found
\* exactly when the store held it, whatever its expiry, and the entry returned
\* is the stored one (the zero entry when k was not found)
C20_GetIgnoresExpiry ==
    Done("Get") =>
        /\ cache = snap.cache
        /\ Caller.ok = (Caller.key \in DOMAIN snap.cache)
        /\ Caller.v = IF Caller.key \in DOMAIN snap.cache THEN snap.cache[Caller.key]
                                                           ELSE ZeroValue

\* C20 witness: a Get has found an entry whose expiry has passed
C20_Witness ==
    /\ Done("Get")
    /\ Caller.ok
    /\ snap.now > Caller.v.expires
====
